---- MODULE Spec2Model ----
(***************************************************************************)
(* Forwarding engine of astrbot_plugin_interflow (src/main.py):            *)
(* the membership index (_build_index), the fan-out dispatcher             *)
(* (on_group_message), the rendering of the pool templates                 *)
(* (_format_message), the retrying delivery (_send_with_retry) and the     *)
(* commands reload_config, list_pools, show_umo and terminate.             *)
(*                                                                         *)
(* A coroutine is cut into actions at its await points: the await of       *)
(* context.send_message and the await of asyncio.sleep.  Everything the    *)
(* handler does between two awaits is one action.                          *)
(***************************************************************************)
EXTENDS Integers, Sequences, FiniteSets, TLC

\* ------------------------------------------------------------------------
\* Program constants
\* ------------------------------------------------------------------------
MAX_RETRY == 3
RETRY_BASE_DELAY == 1

\* ------------------------------------------------------------------------
\* Bounds of the model
\* ------------------------------------------------------------------------
MaxMembers == 2

\* ------------------------------------------------------------------------
\* Values
\* ------------------------------------------------------------------------
\* Python's None, and the truth value of an id (None and "" are falsy).
None == "<None>"
Truthy(v) == v # None /\ v # ""

Channels == {"X", "Y", "Z"}

\* sender ids and originating-bot ids an event can carry; "" stands for the
\* falsy ids (a missing self_id, None, is treated by line 208 as the empty one)
SenderIds == {"", "10001"}
BotIds == {"", "10001"}

\* the fields of the event that do not vary in the model
SenderName == "Bob"
MessageText == "hello"
PlatformName == "aiocqhttp"
GroupId == "g1"
TimeStr == "12:00:00"
DateStr == "2024-01-01"

\* A template is a sequence of tokens: literal text or a replacement field.
Lit(s) == [kind |-> "lit", v |-> s]
Fld(s) == [kind |-> "field", v |-> s]
\* the other things str.format finds in a template:
\*   Pos    a positional field, "{}" or "{0}"
\*   Brace  a brace that opens or closes no field, "{" or "}"
\*   Attr   "{s.a}", the attribute a of field s, a being no attribute of str
\*   Item   "{s[k]}", the item k of field s, k being no integer
Pos(s) == [kind |-> "positional", v |-> s]
Brace(s) == [kind |-> "brace", v |-> s]
Attr(s) == [kind |-> "attr", v |-> s]
Item(s) == [kind |-> "item", v |-> s]

\* default of config.get("default_format", ...)
DefaultFormat ==
    << Lit("["), Fld("platform"), Lit(" | "), Fld("pool_name"), Lit("] "),
       Fld("sender_name"), Lit(":\n"), Fld("message") >>

\* the empty string: pool.get("format", "")
EmptyFormat == << >>

\* the entry "default_format" of the configuration: absent, or a template
AbsentFormat == [ present |-> FALSE, v |-> << >> ]
PresentFormat(template) == [ present |-> TRUE, v |-> template ]

\* lines 223-226: self.config.get("default_format", "[{platform} | ...")
ConfigDefaultFormat(entry) == IF entry.present THEN entry.v ELSE DefaultFormat

\* a per-pool template an operator may configure
CustomFormat ==
    << Lit("["), Fld("pool_name"), Lit("] "), Fld("sender_name"), Lit(": "),
       Fld("message") >>

\* templates whose rendering fails: "{nickname}: {message}", "{0}: {message}",
\* "{sender_name}: {message", "{message.text}", "{message[text]}"
UnknownFieldFormat == << Fld("nickname"), Lit(": "), Fld("message") >>
PositionalFormat == << Pos("0"), Lit(": "), Fld("message") >>
UnbalancedFormat == << Fld("sender_name"), Lit(": "), Brace("{"), Lit("message") >>
AttributeFormat == << Attr("message") >>
ItemFormat == << Item("message") >>

\* a default template an operator may configure: "{sender_name}@{group_name}: {message}"
OperatorDefaultFormat ==
    << Fld("sender_name"), Lit("@"), Fld("group_name"), Lit(": "), Fld("message") >>

\* the pools an operator configures: the name and the template of the pool at
\* each position of config["pools"]
PoolNames == << "P", "Q" >>
PoolFormats == << EmptyFormat, CustomFormat >>

RECURSIVE SeqsUpTo(_, _)
SeqsUpTo(S, n) ==
    IF n = 0 THEN { << >> }
    ELSE LET shorter == SeqsUpTo(S, n - 1)
         IN  shorter \cup { Append(s, x) : s \in { t \in shorter : Len(t) = n - 1 }, x \in S }

GroupLists == SeqsUpTo(Channels, MaxMembers)

\* the pools that can stand at position i of the configuration
PoolsAt(i) ==
    [ name : {PoolNames[i]}, enabled : BOOLEAN, groups : GroupLists,
      format : {PoolFormats[i]} ]

RECURSIVE ConfigsOfLen(_)
ConfigsOfLen(n) ==
    IF n = 0 THEN { << >> }
    ELSE { Append(c, p) : c \in ConfigsOfLen(n - 1), p \in PoolsAt(n) }

\* spec.md section 8, end-to-end scenario: one pool P with members X, Y, Z
EndToEndConfig ==
    << [ name |-> "P", enabled |-> TRUE, groups |-> << "X", "Y", "Z" >>,
         format |-> CustomFormat ] >>

\* two pools that share all three channels, the second one listing a member twice
OverlapConfig ==
    << [ name |-> "P", enabled |-> TRUE, groups |-> << "X", "Y", "Z" >>,
         format |-> EmptyFormat ],
       [ name |-> "Q", enabled |-> TRUE, groups |-> << "Z", "Y", "X", "Y" >>,
         format |-> CustomFormat ] >>

\* config["pools"]
Configs ==
    UNION { ConfigsOfLen(n) : n \in 0..Len(PoolNames) }
        \cup { EndToEndConfig, OverlapConfig }

\* The code only compares channel ids for equality, and the configurations
\* range over all member lists: every placement of a source among the pools
\* occurs with the message coming from X.
Sources == {"X"}

Events == [ unified_msg_origin : Sources, sender_id : SenderIds, self_id : BotIds ]

NoEvent == [ unified_msg_origin |-> None, sender_id |-> None, self_id |-> None ]

Range(s) == { s[i] : i \in 1..Len(s) }


\* ------------------------------------------------------------------------
\* _build_index (src/main.py 45-59)
\* ------------------------------------------------------------------------
EmptyIndex == << >>

\* mutant of PoolEnabled: the enabled flag is ignored
PoolEnabledAlways(pool) == TRUE

\* pool.get("enabled", True) is truthy
PoolEnabled(pool) == IF "enabled" \in DOMAIN pool THEN pool.enabled ELSE TRUE

\* lines 57-59: create the key when missing, then append the pool
IndexAppend(idx, umo, pool) ==
    IF umo \in DOMAIN idx
    THEN [idx EXCEPT ![umo] = Append(@, pool)]
    ELSE [ u \in (DOMAIN idx) \cup {umo} |-> IF u = umo THEN << pool >> ELSE idx[u] ]

\* lines 56-59: the members of one pool, from position k on
RECURSIVE IndexGroups(_, _, _)
IndexGroups(idx, pool, k) ==
    IF k > Len(pool.groups) THEN idx
    ELSE IndexGroups(IndexAppend(idx, pool.groups[k], pool), pool, k + 1)

\* lines 50-59: the pools of the configuration, from position i on
RECURSIVE IndexPools(_, _, _)
IndexPools(idx, pools, i) ==
    IF i > Len(pools) THEN idx
    ELSE IF ~PoolEnabled(pools[i]) THEN IndexPools(idx, pools, i + 1)
    ELSE IndexPools(IndexGroups(idx, pools[i], 1), pools, i + 1)

\* line 47 clears the index, lines 49-59 fill it from config["pools"]
BuildIndex(pools) == IndexPools(EmptyIndex, pools, 1)

\* ------------------------------------------------------------------------
\* _format_message (src/main.py 67-106)
\* ------------------------------------------------------------------------
\* the keyword arguments of template.format(...), lines 97-106
FormatArgs(sender_id, pool_name) ==
    [ sender_name |-> SenderName, sender_id |-> sender_id, group_name |-> GroupId,
      pool_name |-> pool_name, platform |-> PlatformName, message |-> MessageText,
      time |-> TimeStr, date |-> DateStr ]

\* str.format on one token: literal text is copied, a field is looked up
FormatToken(tok, args) == IF tok.kind = "lit" THEN tok.v ELSE args[tok.v]

\* what str.format raises on one token, all keyword arguments being strings
\* and there being no positional argument, or None
TokenRaises(tok, args) ==
    IF tok.kind = "lit" THEN None
    ELSE IF tok.kind = "brace" THEN "ValueError"
    ELSE IF tok.kind = "positional" THEN "IndexError"
    ELSE IF tok.v \notin DOMAIN args THEN "KeyError"
    ELSE IF tok.kind = "attr" THEN "AttributeError"
    ELSE IF tok.kind = "item" THEN "TypeError"
    ELSE None

\* str.format works from left to right: it raises what its first failing
\* token raises
FormatRaises(template, args) ==
    LET bad == { i \in 1..Len(template) : TokenRaises(template[i], args) # None }
    IN  IF bad = {} THEN None
        ELSE TokenRaises(template[CHOOSE i \in bad : \A j \in bad : i <= j], args)

\* the rendered text, as the sequence of its pieces
FormatMessage(template, sender_id, pool_name) ==
    LET args == FormatArgs(sender_id, pool_name)
    IN  [ i \in 1..Len(template) |-> FormatToken(template[i], args) ]

\* line 256: f"[{pool_name}] {sender_name}: {message_text}"
SafeFormatText(pool_name) ==
    << "[", pool_name, "] ", SenderName, ": ", MessageText >>


\* ------------------------------------------------------------------------
\* State
\* ------------------------------------------------------------------------
VARIABLES
    config,         \* self.config["pools"]
    default_format, \* the entry self.config["default_format"], when there is one
    umo_to_pools,   \* self._umo_to_pools: channel id -> sequence of pools
    task            \* the invocations of on_group_message: locals and what was observed

vars == << config, default_format, umo_to_pools, task >>

Tasks == DOMAIN task

\* The locals of one invocation of on_group_message, and what it did so far:
\*   pc     "idle" (not called), "send" (awaiting context.send_message),
\*          "sleep" (awaiting asyncio.sleep), "raised" (left by an exception),
\*          "done" (returned)
\*   jobs   the calls of _send_with_retry, each with the trace of its events
\*   log    the warnings of the dispatcher itself
\*   stops  how often event.stop_event() was called
\*   reply  the event.plain_result of a command handler
IdleTask ==
    [ pc |-> "idle", event |-> NoEvent, default_format |-> << >>,
      pools |-> << >>, pi |-> 0, gi |-> 0,
      pool_name |-> None, formatted_text |-> << >>, sent_targets |-> {},
      target_umo |-> None, attempt |-> 0, jobs |-> << >>, log |-> << >>, stops |-> 0,
      reply |-> << >> ]

\* one event of a delivery: n is the attempt, arg the result, kind or delay
Ev(ev, n, arg) == [ ev |-> ev, n |-> n, arg |-> arg ]

Trace(l, e) == [ l EXCEPT !.jobs[Len(l.jobs)].trace = Append(@, e) ]

\* ------------------------------------------------------------------------
\* on_group_message (src/main.py 192-275)
\* ------------------------------------------------------------------------
\* line 200
InNoPool(idx, source_umo) == source_umo \notin DOMAIN idx

\* mutant of IsBotSelf: the loop guard is lost
IsBotSelfNever(sender_id, bot_self_id) == FALSE

\* lines 206-208: bot_self_id and sender_id == bot_self_id
IsBotSelf(sender_id, bot_self_id) == Truthy(bot_self_id) /\ sender_id = bot_self_id

\* line 238: pool.get("format", "") or default_format
PoolFormat(pool, default) == IF pool.format # EmptyFormat THEN pool.format ELSE default

\* lines 241-251: the exception of rendering the pool's template, or None
RenderRaises(l, pool) ==
    FormatRaises(PoolFormat(pool, l.default_format),
                 FormatArgs(l.event.sender_id, pool.name))

\* line 252: except (KeyError, ValueError, IndexError)
Caught(exc) == exc \in {"KeyError", "ValueError", "IndexError"}

\* lines 241-256: the text of one pool: the rendering, or the safe format
RenderText(l, pool) ==
    IF RenderRaises(l, pool) = None
    THEN FormatMessage(PoolFormat(pool, l.default_format), l.event.sender_id, pool.name)
    ELSE SafeFormatText(pool.name)

\* mutant of RenderPool: the text is rendered once per message, for its first pool
RenderPoolOnce(l, pool) ==
    IF l.pi > 1 THEN [ l EXCEPT !.pool_name = pool.name ]
    ELSE [ l EXCEPT !.pool_name = pool.name,
                    !.formatted_text = RenderText(l, pool) ]

\* lines 236-256: the pool's name, its text, and the warning of a failed
\* rendering; an exception that line 252 does not catch leaves on_group_message
RenderPool(l, pool) ==
    IF RenderRaises(l, pool) = None
    THEN [ l EXCEPT !.pool_name = pool.name,
                    !.formatted_text = RenderText(l, pool) ]
    ELSE IF Caught(RenderRaises(l, pool))
    THEN [ l EXCEPT !.pool_name = pool.name,
                    !.formatted_text = SafeFormatText(pool.name),
                    !.log = Append(@, Ev("warning", 0, pool.name)) ]
    ELSE [ l EXCEPT !.pool_name = pool.name,
                    !.pc = "raised",
                    !.log = Append(@, Ev("raise", 0, RenderRaises(l, pool))) ]

\* mutant of IsSource: the comparison with the source is lost
IsSourceNever(target_umo, source_umo) == FALSE

\* line 262
IsSource(target_umo, source_umo) == target_umo = source_umo

\* mutant of AlreadySent: the set of sent targets is never consulted
AlreadySentNever(target_umo, sent_targets) == FALSE

\* mutant of AlreadySent: the set of sent targets is one set for all messages
AlreadySentByAnyMessage(target_umo, sent_targets) ==
    target_umo \in UNION { task[t].sent_targets : t \in Tasks }

\* line 266
AlreadySent(target_umo, sent_targets) == target_umo \in sent_targets

\* lines 235-275: the two loops, run from member gi of pool pi up to the next
\* await or to the return.  Each iteration binds the locals to a value once
\* (an operator argument would be evaluated anew at each of its uses).
RECURSIVE ForTargets(_)
RECURSIVE ForPools(_)

\* mutant of Submit: the delivery is started and not awaited, the loop goes on
SubmitDetached(l, target_umo) ==
    ForTargets([ l EXCEPT !.sent_targets = @ \cup {target_umo},
                          !.target_umo = target_umo,
                          !.gi = @ + 1,
                          !.jobs = Append(@, [ target |-> target_umo,
                                               text |-> l.formatted_text,
                                               pool |-> l.pool_name,
                                               trace |-> << Ev("send", 1, target_umo) >> ]) ])

\* lines 268-272 and 164-166: the Forward Job of a new target, up to the await
\* of its first context.send_message
Submit(l, target_umo) ==
    [ l EXCEPT !.sent_targets = @ \cup {target_umo},
               !.target_umo = target_umo,
               !.attempt = 1,
               !.pc = "send",
               !.jobs = Append(@, [ target |-> target_umo,
                                    text |-> l.formatted_text,
                                    pool |-> l.pool_name,
                                    trace |-> << Ev("send", 1, target_umo) >> ]) ]

\* line 275
StopEvent(l) == [ l EXCEPT !.pc = "done", !.stops = @ + 1 ]

\* lines 260-272: one iteration of the inner loop, at member gi of pool pi
TargetStep(l) ==
    LET groups == l.pools[l.pi].groups
    IN  IF l.gi > Len(groups) THEN ForPools([ l EXCEPT !.pi = @ + 1 ])
        ELSE IF IsSource(groups[l.gi], l.event.unified_msg_origin)
             THEN ForTargets([ l EXCEPT !.gi = @ + 1 ])
        ELSE IF AlreadySent(groups[l.gi], l.sent_targets)
             THEN ForTargets([ l EXCEPT !.gi = @ + 1 ])
        ELSE Submit(l, groups[l.gi])

ForTargets(locals) == CHOOSE r \in { TargetStep(l) : l \in {locals} } : TRUE

\* lines 235-259 and 275: one iteration of the outer loop, at pool pi
PoolStep(l) ==
    IF l.pi > Len(l.pools) THEN StopEvent(l)
    ELSE LET r == RenderPool(l, l.pools[l.pi])
         IN  IF r.pc = "raised" THEN r ELSE ForTargets([ r EXCEPT !.gi = 1 ])

ForPools(locals) == CHOOSE r \in { PoolStep(l) : l \in {locals} } : TRUE

\* _send_with_retry has returned: line 272 is done, the inner loop goes on
Delivered(l) == ForTargets([ l EXCEPT !.gi = @ + 1 ])

\* mutant of Dispatch: the message of a channel without pools is still stopped
DispatchStopsUnpooled(idx, default, e) ==
    LET l == [ IdleTask EXCEPT !.event = e ]
    IN  IF InNoPool(idx, e.unified_msg_origin) THEN StopEvent(l)
        ELSE IF IsBotSelf(e.sender_id, e.self_id) THEN [ l EXCEPT !.pc = "done" ]
        ELSE ForPools([ l EXCEPT !.default_format = default,
                                 !.pools = idx[e.unified_msg_origin], !.pi = 1 ])

\* lines 196-234: the guards, then the loops up to the first await
Dispatch(idx, default, e) ==
    LET l == [ IdleTask EXCEPT !.event = e ]
    IN  IF InNoPool(idx, e.unified_msg_origin) THEN [ l EXCEPT !.pc = "done" ]
        ELSE IF IsBotSelf(e.sender_id, e.self_id) THEN [ l EXCEPT !.pc = "done" ]
        ELSE ForPools([ l EXCEPT !.default_format = default,
                                 !.pools = idx[e.unified_msg_origin], !.pi = 1 ])

\* mutant of OnGroupMessage: the lookup creates the key of an unknown channel
OnGroupMessageCreatesKey(t, e) ==
    /\ task[t].pc = "idle"
    /\ task' = [ task EXCEPT ![t] = Dispatch(umo_to_pools, ConfigDefaultFormat(default_format), e) ]
    /\ umo_to_pools' =
           [ u \in (DOMAIN umo_to_pools) \cup {e.unified_msg_origin} |->
               IF u \in DOMAIN umo_to_pools THEN umo_to_pools[u] ELSE << >> ]
    /\ UNCHANGED << config, default_format >>

OnGroupMessage(t, e) ==
    /\ task[t].pc = "idle"
    /\ task' = [ task EXCEPT ![t] = Dispatch(umo_to_pools, ConfigDefaultFormat(default_format), e) ]
    /\ UNCHANGED << config, default_format, umo_to_pools >>

\* ------------------------------------------------------------------------
\* _send_with_retry (src/main.py 155-190)
\* ------------------------------------------------------------------------
\* what context.send_message can do: return, raise RuntimeError, raise another Exception
SendResults == {"ok", "RuntimeError", "Exception"}

\* mutant of ExceptClause: one clause catches every exception and retries
ExceptClauseRetriesAll(res) ==
    IF res = "RuntimeError" \/ res = "Exception" THEN "transient" ELSE "none"

\* mutant of ExceptClause: the clause for non-transient errors is missing
ExceptClauseTransientOnly(res) ==
    IF res = "RuntimeError" THEN "transient" ELSE "none"

\* lines 168 and 178: the except clause that handles the result
ExceptClause(res) ==
    IF res = "RuntimeError" THEN "transient"
    ELSE IF res = "Exception" THEN "permanent"
    ELSE "none"

\* mutant of Delay: the exponent is the attempt, not the attempt minus one
DelayOffByOne(attempt) == RETRY_BASE_DELAY * (2 ^ attempt)

\* line 172
Delay(attempt) == RETRY_BASE_DELAY * (2 ^ (attempt - 1))

\* mutant of MayRetry: the last attempt is followed by a wait and a retry too
MayRetryInclusive(attempt) == attempt <= MAX_RETRY

\* line 171
MayRetry(attempt) == attempt < MAX_RETRY

\* lines 186-190: the loop is over without a return
Exhausted(l) == Delivered(Trace(Trace(l, Ev("error", l.attempt, "exhausted")),
                                Ev("return", l.attempt, "exhausted")))

\* lines 165-184: the send of the current attempt is over with result res
AfterSend(l, res) ==
    LET r == Trace(l, Ev("result", l.attempt, res))
    IN  IF res = "ok" THEN Delivered(Trace(r, Ev("return", l.attempt, "success")))
        ELSE IF ExceptClause(res) = "transient"
        THEN IF MayRetry(l.attempt)
             THEN [ Trace(Trace(r, Ev("warning", l.attempt, "retry")),
                          Ev("sleep", l.attempt, Delay(l.attempt)))
                    EXCEPT !.pc = "sleep" ]
             ELSE Exhausted(r)
        ELSE IF ExceptClause(res) = "permanent"
        THEN Delivered(Trace(Trace(r, Ev("warning", l.attempt, "permanent")),
                             Ev("return", l.attempt, "permanent")))
        ELSE [ Trace(r, Ev("raise", l.attempt, res)) EXCEPT !.pc = "raised" ]

\* the await of line 166 is over
SendReturns(t) ==
    /\ task[t].pc = "send"
    /\ task' = [ task EXCEPT ![t] = AfterSend(task[t], "ok") ]
    /\ UNCHANGED << config, default_format, umo_to_pools >>

SendRaisesRuntimeError(t) ==
    /\ task[t].pc = "send"
    /\ task' = [ task EXCEPT ![t] = AfterSend(task[t], "RuntimeError") ]
    /\ UNCHANGED << config, default_format, umo_to_pools >>

SendRaisesException(t) ==
    /\ task[t].pc = "send"
    /\ task' = [ task EXCEPT ![t] = AfterSend(task[t], "Exception") ]
    /\ UNCHANGED << config, default_format, umo_to_pools >>

\* the await of line 177 is over: the next iteration of line 164 sends again
AfterSleep(l) ==
    [ Trace(l, Ev("send", l.attempt + 1, l.target_umo))
      EXCEPT !.attempt = @ + 1, !.pc = "send" ]

SleepDone(t) ==
    /\ task[t].pc = "sleep"
    /\ task' = [ task EXCEPT ![t] = AfterSleep(task[t]) ]
    /\ UNCHANGED << config, default_format, umo_to_pools >>

\* ------------------------------------------------------------------------
\* reload_config (src/main.py 277-288) and terminate (src/main.py 323-326)
\* ------------------------------------------------------------------------
\* mutant of ReloadConfig: the rebuild is seen before it has read the first pool
ReloadConfigPartial ==
    /\ umo_to_pools' = IndexPools(EmptyIndex, config, 2)
    /\ UNCHANGED << config, default_format, task >>

ReloadConfig ==
    /\ umo_to_pools' = BuildIndex(config)
    /\ UNCHANGED << config, default_format, task >>

Terminate ==
    /\ umo_to_pools' = EmptyIndex
    /\ UNCHANGED << config, default_format, task >>

\* ------------------------------------------------------------------------
\* list_pools (src/main.py 290-312) and show_umo (src/main.py 314-321)
\* ------------------------------------------------------------------------
\* line 303: pool.get("format", "") or the marker of the default format
ListedFormat(pool) ==
    IF pool.format # EmptyFormat THEN pool.format ELSE << Lit("(default)") >>

\* lines 292-312: the reply of list_pools
ListReply(pools) ==
    IF pools = << >> THEN << "no pools" >>
    ELSE [ i \in 1..Len(pools) |->
             [ name |-> pools[i].name,
               status |-> IF PoolEnabled(pools[i]) THEN "enabled" ELSE "disabled",
               count |-> Len(pools[i].groups),
               format |-> ListedFormat(pools[i]),
               groups |-> pools[i].groups ] ]

\* a command handler replies and returns; it awaits nothing
Replied(e, reply) == [ IdleTask EXCEPT !.pc = "done", !.event = e, !.reply = reply ]

ListPools(t, e) ==
    /\ task[t].pc = "idle"
    /\ task' = [ task EXCEPT ![t] = Replied(e, ListReply(config)) ]
    /\ UNCHANGED << config, default_format, umo_to_pools >>

\* lines 316-321: the reply of show_umo
ShowUmo(t, e) ==
    /\ task[t].pc = "idle"
    /\ task' = [ task EXCEPT ![t] = Replied(e, << e.unified_msg_origin >>) ]
    /\ UNCHANGED << config, default_format, umo_to_pools >>

\* ------------------------------------------------------------------------
\* Specification
\* ------------------------------------------------------------------------
\* the invocations of on_group_message of one behaviour
TaskIds == {"m1"}

\* __init__ (lines 34-43): the index is built from the configuration
Init ==
    /\ config \in Configs
    /\ default_format = AbsentFormat
    /\ umo_to_pools = BuildIndex(config)
    /\ task = [ t \in TaskIds |-> IdleTask ]

\* a message arrives and is handled, one await at a time
Next ==
    \/ \E t \in Tasks, e \in Events : OnGroupMessage(t, e)
    \/ \E t \in Tasks : SendReturns(t)
    \/ \E t \in Tasks : SendRaisesRuntimeError(t)
    \/ \E t \in Tasks : SendRaisesException(t)
    \/ \E t \in Tasks : SleepDone(t)

\* every configuration, one message
Spec == Init /\ [][Next]_vars

\* the plugin's life: messages, reloads of the index and the termination
NextLife ==
    \/ Next
    \/ ReloadConfig
    \/ Terminate

\* The operator edits the configuration: the host replaces config["pools"]
\* wholesale; the index changes only when reload_config is called afterwards.
\* P lists X and Y; Q lists X and Z, once with its enabled flag and once
\* without; a disabled P lists all channels; a Q without enabled flag lists Y twice.
PoolPXY == [ name |-> "P", enabled |-> TRUE, groups |-> << "X", "Y" >>, format |-> EmptyFormat ]
PoolQXZ == [ name |-> "Q", enabled |-> TRUE, groups |-> << "X", "Z" >>, format |-> CustomFormat ]
PoolPOff ==
    [ name |-> "P", enabled |-> FALSE, groups |-> << "X", "Y", "Z" >>, format |-> EmptyFormat ]
PoolQDup == [ name |-> "Q", groups |-> << "Y", "X", "Y" >>, format |-> CustomFormat ]

ReloadConfigs ==
    { << >>, << PoolPXY >>, << PoolPXY, PoolQXZ >>, << PoolQXZ, PoolPXY >>,
      << PoolPOff, PoolQDup >> }

ConfigChanged ==
    /\ config' \in ReloadConfigs
    /\ UNCHANGED << default_format, umo_to_pools, task >>

ReloadInit ==
    /\ config \in ReloadConfigs
    /\ default_format = AbsentFormat
    /\ umo_to_pools = BuildIndex(config)
    /\ task = [ t \in TaskIds |-> IdleTask ]

\* every handler of the plugin, and the operator
NextReload ==
    \/ NextLife
    \/ ConfigChanged
    \/ \E t \in Tasks, e \in Events : ListPools(t, e)
    \/ \E t \in Tasks, e \in Events : ShowUmo(t, e)

\* one message or one command, with edits, reloads and the termination at any time
ReloadSpec == ReloadInit /\ [][NextReload]_vars

\* one message to configurations with members listed twice: OverlapConfig
\* (pool Q lists the target Y twice), a pool that lists the source X twice and
\* has the template "{nickname}: {message}", and EndToEndConfig (no member twice)
DuplicateConfigs ==
    { OverlapConfig,
      << [ name |-> "P", enabled |-> TRUE, groups |-> << "X", "Y", "X" >>,
           format |-> UnknownFieldFormat ] >>,
      EndToEndConfig }

DuplicateInit ==
    /\ config \in DuplicateConfigs
    /\ default_format = AbsentFormat
    /\ umo_to_pools = BuildIndex(config)
    /\ task = [ t \in TaskIds |-> IdleTask ]

DuplicateSpec == DuplicateInit /\ [][Next]_vars

\* two messages in flight at once, from the same source or from two sources,
\* under the end-to-end configuration: the event loop runs one invocation of
\* on_group_message up to its next await, then any of the two
PairTaskIds == {"m1", "m2"}

PairEvents ==
    [ unified_msg_origin : {"X", "Y"}, sender_id : {"10001"}, self_id : {""} ]

PairInit ==
    /\ config = EndToEndConfig
    /\ default_format = AbsentFormat
    /\ umo_to_pools = BuildIndex(config)
    /\ task = [ t \in PairTaskIds |-> IdleTask ]

NextPair ==
    \/ \E t \in Tasks, e \in PairEvents : OnGroupMessage(t, e)
    \/ \E t \in Tasks : SendReturns(t)
    \/ \E t \in Tasks : SendRaisesRuntimeError(t)
    \/ \E t \in Tasks : SendRaisesException(t)
    \/ \E t \in Tasks : SleepDone(t)

PairSpec == PairInit /\ [][NextPair]_vars

\* the templates a pool can carry, and the entries "default_format" can have
PoolTemplates ==
    { EmptyFormat, CustomFormat, UnknownFieldFormat, PositionalFormat,
      UnbalancedFormat, AttributeFormat, ItemFormat }
DefaultEntries ==
    { AbsentFormat, PresentFormat(EmptyFormat), PresentFormat(OperatorDefaultFormat),
      PresentFormat(UnknownFieldFormat) }

\* two pools that list the source X: P brings the target Y, Q the new target Z
TemplateConfigs ==
    { << [ name |-> "P", enabled |-> TRUE, groups |-> << "X", "Y" >>, format |-> f ],
         [ name |-> "Q", enabled |-> TRUE, groups |-> << "X", "Y", "Z" >>, format |-> g ] >> :
      f \in PoolTemplates, g \in PoolTemplates }

TemplateInit ==
    /\ config \in TemplateConfigs
    /\ default_format \in DefaultEntries
    /\ umo_to_pools = BuildIndex(config)
    /\ task = [ t \in TaskIds |-> IdleTask ]

\* one message, under every combination of templates
TemplateSpec == TemplateInit /\ [][Next]_vars

\* The event loop resumes a coroutine whose await is over: a pending
\* context.send_message ends (it returns or raises), a pending asyncio.sleep ends.
SendEnds(t) == SendReturns(t) \/ SendRaisesRuntimeError(t) \/ SendRaisesException(t)

\* the life of the plugin on the two scenario configurations, under that scheduling
DeliveryInit ==
    /\ config \in { EndToEndConfig, OverlapConfig }
    /\ default_format = AbsentFormat
    /\ umo_to_pools = BuildIndex(config)
    /\ task = [ t \in TaskIds |-> IdleTask ]

DeliverySpec ==
    /\ DeliveryInit
    /\ [][NextLife]_vars
    /\ \A t \in TaskIds : WF_vars(SendEnds(t)) /\ WF_vars(SleepDone(t))

\* one message under the same scheduling: to a pool with two targets, to a
\* pool whose only member is the source, and to a pool with a target followed
\* by a pool whose template is "{message.text}"
StopConfigs ==
    { EndToEndConfig,
      << [ name |-> "P", enabled |-> TRUE, groups |-> << "X" >>, format |-> EmptyFormat ] >>,
      << PoolPXY,
         [ name |-> "Q", enabled |-> TRUE, groups |-> << "X", "Z" >>,
           format |-> AttributeFormat ] >> }

StopInit ==
    /\ config \in StopConfigs
    /\ default_format = AbsentFormat
    /\ umo_to_pools = BuildIndex(config)
    /\ task = [ t \in TaskIds |-> IdleTask ]

StopSpec ==
    /\ StopInit
    /\ [][Next]_vars
    /\ \A t \in TaskIds : WF_vars(SendEnds(t)) /\ WF_vars(SleepDone(t))


\* ------------------------------------------------------------------------
\* Observations used by the properties
\* ------------------------------------------------------------------------
JobIdx(l) == 1..Len(l.jobs)

\* the jobs of one dispatch that go to channel c
JobsTo(l, c) == { i \in JobIdx(l) : l.jobs[i].target = c }

JobTargets(l) == { l.jobs[i].target : i \in JobIdx(l) }

\* every delivery trace of the state
AllTraces == UNION { { task[t].jobs[i].trace : i \in 1..Len(task[t].jobs) } : t \in Tasks }

\* the positions of the events of one kind in a trace
At(tr, ev) == { k \in 1..Len(tr) : tr[k].ev = ev }

\* the transport results of a trace, in order
ResultsOf(tr) ==
    LET rs == SelectSeq(tr, LAMBDA e : e.ev = "result")
    IN  [ k \in 1..Len(rs) |-> rs[k].arg ]

\* the waits of a trace, in order
WaitsOf(tr) ==
    LET ws == SelectSeq(tr, LAMBDA e : e.ev = "sleep")
    IN  [ k \in 1..Len(ws) |-> ws[k].arg ]

Finished(tr) == At(tr, "return") # {}

\* the enabled pools of the configuration that list channel c
PoolsListing(c) ==
    { i \in 1..Len(config) : config[i].enabled /\ c \in Range(config[i].groups) }

\* the dispatch got past both guards (line 234 was reached)
PassedGuards(l) == l.pc # "idle" /\ l.pools # << >>

\* on_group_message is over: it returned or it was left by an exception
Over(l) == l.pc \in {"done", "raised"}

\* ------------------------------------------------------------------------
\* C1: for one incoming message, a target channel receives at most one
\* Forward Job, however many enabled pools connect it to the source.
\* ------------------------------------------------------------------------
C1_AtMostOneJobPerTarget ==
    \A t \in Tasks : \A c \in Channels : Cardinality(JobsTo(task[t], c)) <= 1

\* a finished dispatch whose target is listed by two enabled pools of the source
C1_Witness ==
    \E t \in Tasks : \E c \in Channels :
        LET src == task[t].event.unified_msg_origin
        IN  /\ task[t].pc = "done"
            /\ c # src
            /\ Cardinality(PoolsListing(c) \cap PoolsListing(src)) >= 2
            /\ Cardinality(JobsTo(task[t], c)) = 1

\* ------------------------------------------------------------------------
\* C2: the source channel of a message is never the target of one of its
\* Forward Jobs.
\* ------------------------------------------------------------------------
C2_NeverToSource ==
    \A t \in Tasks : task[t].event.unified_msg_origin \notin JobTargets(task[t])

\* a finished dispatch with jobs whose source is listed twice in a pool and
\* in two pools
C2_Witness ==
    \E t \in Tasks :
        LET src == task[t].event.unified_msg_origin
        IN  /\ task[t].pc = "done"
            /\ task[t].jobs # << >>
            /\ Cardinality(PoolsListing(src)) >= 2
            /\ \E i \in PoolsListing(src) :
                   Cardinality({ k \in 1..Len(config[i].groups) : config[i].groups[k] = src }) >= 2


\* ------------------------------------------------------------------------
\* C3 (as claimed): a message whose sender id equals the originating-bot id
\* is never dispatched: no Forward Job, no send attempt, no stop_event.
\* ------------------------------------------------------------------------
NotDispatched(l) == l.jobs = << >> /\ l.stops = 0 /\ l.log = << >>

C3_Original ==
    \A t \in Tasks :
        (task[t].pc # "idle" /\ task[t].event.sender_id = task[t].event.self_id)
            => NotDispatched(task[t])

\* C3 (amended): a message whose originating-bot id is present (not None, not
\* empty) and equal to the sender id is never dispatched: no Forward Job, no
\* send attempt, no stop_event.
C3_BotSelfNotDispatched ==
    \A t \in Tasks :
        ( /\ task[t].pc # "idle"
          /\ Truthy(task[t].event.self_id)
          /\ task[t].event.sender_id = task[t].event.self_id )
            => (NotDispatched(task[t]) /\ task[t].pc = "done")

\* the bot's own message arrived in a channel that has targets, and was dropped
C3_Witness ==
    \E t \in Tasks :
        LET e == task[t].event
        IN  /\ task[t].pc = "done"
            /\ e.self_id = "10001" /\ e.sender_id = "10001"
            /\ e.unified_msg_origin \in DOMAIN umo_to_pools
            /\ \E i \in PoolsListing(e.unified_msg_origin) :
                   Range(config[i].groups) # {e.unified_msg_origin}


\* ------------------------------------------------------------------------
\* C4: for a message that passes the guards, the targets that receive a
\* Forward Job are exactly the members of the enabled pools that contain the
\* source, without the source, and each of them receives exactly one job.
\* ------------------------------------------------------------------------
ExpectedTargets(src) ==
    UNION { Range(config[i].groups) : i \in PoolsListing(src) } \ {src}

C4_TargetsAreUnionOfPools ==
    \A t \in Tasks :
        (Over(task[t]) /\ PassedGuards(task[t])) =>
            LET want == ExpectedTargets(task[t].event.unified_msg_origin)
            IN  /\ JobTargets(task[t]) = want
                /\ \A c \in want : Cardinality(JobsTo(task[t], c)) = 1
                /\ Len(task[t].jobs) = Cardinality(want)

\* the end-to-end scenario: pool P = [X, Y, Z], a message from X gives exactly
\* two jobs, to Y and to Z, both with the text "[P] Bob: hello"
C4_Witness ==
    \E t \in Tasks :
        /\ config = EndToEndConfig
        /\ task[t].pc = "done"
        /\ task[t].event.unified_msg_origin = "X"
        /\ Len(task[t].jobs) = 2
        /\ task[t].jobs[1].target = "Y" /\ task[t].jobs[2].target = "Z"
        /\ \A i \in 1..2 :
               task[t].jobs[i].text = << "[", "P", "] ", "Bob", ": ", "hello" >>

\* ------------------------------------------------------------------------
\* C5: the text of a target's job is the text rendered for the first pool, in
\* the index order of the source, that lists the target; targets first
\* reached through the same pool carry the same text.
\* ------------------------------------------------------------------------
\* the first position of the looked-up pool list whose pool lists channel c
FirstPoolOf(l, c) ==
    CHOOSE i \in 1..Len(l.pools) :
        /\ c \in Range(l.pools[i].groups)
        /\ \A k \in 1..(i - 1) : c \notin Range(l.pools[k].groups)

\* the text lines 238-256 give for a pool
TextFor(l, pool) == RenderText(l, pool)

C5_TextOfFirstPool ==
    \A t \in Tasks :
        LET l == task[t]
        IN  /\ \A i \in JobIdx(l) :
                   /\ \E k \in 1..Len(l.pools) : l.jobs[i].target \in Range(l.pools[k].groups)
                   /\ l.jobs[i].text = TextFor(l, l.pools[FirstPoolOf(l, l.jobs[i].target)])
                   /\ l.jobs[i].pool = l.pools[FirstPoolOf(l, l.jobs[i].target)].name
            /\ \A i, j \in JobIdx(l) :
                   FirstPoolOf(l, l.jobs[i].target) = FirstPoolOf(l, l.jobs[j].target)
                       => l.jobs[i].text = l.jobs[j].text

\* a finished dispatch with a target listed by two pools whose texts differ,
\* and two targets first reached through the same pool
C5_Witness ==
    \E t \in Tasks :
        LET l == task[t]
        IN  /\ l.pc = "done"
            /\ \E i \in JobIdx(l) : \E k \in 1..Len(l.pools) :
                   /\ k > FirstPoolOf(l, l.jobs[i].target)
                   /\ l.jobs[i].target \in Range(l.pools[k].groups)
                   /\ TextFor(l, l.pools[k]) # l.jobs[i].text
            /\ \E i, j \in JobIdx(l) :
                   /\ i # j
                   /\ FirstPoolOf(l, l.jobs[i].target) = FirstPoolOf(l, l.jobs[j].target)

\* ------------------------------------------------------------------------
\* C6: a message whose source channel is a member of no enabled pool is a
\* no-op: no Forward Job, no send attempt, no stop_event, index unchanged.
\* ------------------------------------------------------------------------
C6_NoOp ==
    \A t \in Tasks :
        (task[t].pc # "idle" /\ PoolsListing(task[t].event.unified_msg_origin) = {})
            => (NotDispatched(task[t]) /\ task[t].pc = "done")

C6_IndexKept ==
    \A t \in Tasks :
        (task[t].pc = "idle" /\ task'[t].pc # "idle"
            /\ PoolsListing(task'[t].event.unified_msg_origin) = {})
            => umo_to_pools' = umo_to_pools

C6_UnpooledIsNoOp == [](C6_NoOp) /\ [][C6_IndexKept]_vars

\* a message from a channel that only a disabled pool lists was dropped, while
\* the index lists other channels
C6_Witness ==
    \E t \in Tasks :
        LET src == task[t].event.unified_msg_origin
        IN  /\ task[t].pc = "done"
            /\ PoolsListing(src) = {}
            /\ \E i \in 1..Len(config) : src \in Range(config[i].groups)
            /\ umo_to_pools # EmptyIndex


\* ------------------------------------------------------------------------
\* C7: attempt n+1 is made only after attempt n failed with a transient
\* error and after a wait of 1s (n = 1) or 2s (n = 2); there is no wait before
\* attempt 1 or after a success; transient, transient, success ends in
\* success with no error log.
\* ------------------------------------------------------------------------
ExpectedWait(n) == IF n = 1 THEN 1 ELSE 2

C7_TraceRetryTiming(tr) ==
    /\ tr[1].ev = "send" /\ tr[1].n = 1
    /\ \A k \in At(tr, "send") :
           tr[k].n >= 2 =>
               /\ tr[k].n <= 3
               /\ k >= 5
               /\ tr[k - 1] = Ev("sleep", tr[k].n - 1, ExpectedWait(tr[k].n - 1))
               /\ tr[k - 3] = Ev("result", tr[k].n - 1, "RuntimeError")
    /\ \A k \in At(tr, "sleep") :
           /\ k >= 3
           /\ tr[k].n \in {1, 2}
           /\ tr[k].arg = ExpectedWait(tr[k].n)
           /\ tr[k - 2] = Ev("result", tr[k].n, "RuntimeError")
           /\ k < Len(tr) => (tr[k + 1].ev = "send" /\ tr[k + 1].n = tr[k].n + 1)
    /\ \A k \in At(tr, "result") :
           tr[k].arg = "ok" => (Len(tr) = k + 1 /\ tr[k + 1] = Ev("return", tr[k].n, "success"))
    /\ ResultsOf(tr) = << "RuntimeError", "RuntimeError", "ok" >> =>
           /\ WaitsOf(tr) = << 1, 2 >>
           /\ At(tr, "error") = {}
           /\ tr[Len(tr)] = Ev("return", 3, "success")

C7_RetryTiming == \A tr \in AllTraces : C7_TraceRetryTiming(tr)

\* a delivery that failed transiently twice and then succeeded
C7_Witness ==
    \E tr \in AllTraces :
        ResultsOf(tr) = << "RuntimeError", "RuntimeError", "ok" >> /\ Finished(tr)

\* ------------------------------------------------------------------------
\* C8: a permanent failure on attempt n ends the delivery at once: no further
\* send, no wait after it, exactly one warning for it; on attempt 1 the
\* delivery has no wait at all and exactly one warning.
\* ------------------------------------------------------------------------
C8_TracePermanent(tr) ==
    \A k \in At(tr, "result") :
        tr[k].arg = "Exception" =>
            /\ Len(tr) = k + 2
            /\ tr[k + 1] = Ev("warning", tr[k].n, "permanent")
            /\ tr[k + 2] = Ev("return", tr[k].n, "permanent")
            /\ Cardinality(At(tr, "send")) = tr[k].n
            /\ Cardinality({ j \in At(tr, "warning") : tr[j].arg = "permanent" }) = 1
            /\ Cardinality(At(tr, "sleep")) = tr[k].n - 1
            /\ tr[k].n = 1 => (WaitsOf(tr) = << >> /\ Cardinality(At(tr, "warning")) = 1)

C8_PermanentAbandons == \A tr \in AllTraces : C8_TracePermanent(tr)

\* a permanent failure on attempt 1 and a permanent failure on a later
\* attempt, and the dispatch went on after them
C8_Witness ==
    \E t \in Tasks :
        /\ task[t].pc = "done"
        /\ \E i \in JobIdx(task[t]) : ResultsOf(task[t].jobs[i].trace) = << "Exception" >>
        /\ \E i \in JobIdx(task[t]) :
               ResultsOf(task[t].jobs[i].trace) = << "RuntimeError", "Exception" >>

\* ------------------------------------------------------------------------
\* C9: three transient failures end the delivery as retries-exhausted: exactly
\* 3 sends, the waits 1s and 2s and none after the last attempt, exactly one
\* error log; no other outcome logs an error.
\* ------------------------------------------------------------------------
ExhaustedTrace(target) ==
    << Ev("send", 1, target), Ev("result", 1, "RuntimeError"), Ev("warning", 1, "retry"),
       Ev("sleep", 1, 1),
       Ev("send", 2, target), Ev("result", 2, "RuntimeError"), Ev("warning", 2, "retry"),
       Ev("sleep", 2, 2),
       Ev("send", 3, target), Ev("result", 3, "RuntimeError"),
       Ev("error", 3, "exhausted"), Ev("return", 3, "exhausted") >>

C9_TraceExhausted(tr) ==
    /\ Len(ResultsOf(tr)) >= 3 /\ (\A k \in 1..3 : ResultsOf(tr)[k] = "RuntimeError")
           => tr = ExhaustedTrace(tr[1].arg)
    /\ At(tr, "error") # {} =>
           /\ Cardinality(At(tr, "error")) = 1
           /\ ResultsOf(tr) = << "RuntimeError", "RuntimeError", "RuntimeError" >>
           /\ tr[Len(tr)] = Ev("return", 3, "exhausted")
    /\ Cardinality(At(tr, "send")) > 3 => At(tr, "error") # {}

C9_RetriesExhausted == \A tr \in AllTraces : C9_TraceExhausted(tr)

\* a delivery that failed transiently three times
C9_Witness ==
    \E tr \in AllTraces :
        ResultsOf(tr) = << "RuntimeError", "RuntimeError", "RuntimeError" >> /\ Finished(tr)

\* ------------------------------------------------------------------------
\* C10: whatever the transport does, every invocation of _send_with_retry
\* ends after 1 to 3 send attempts in exactly one of success, permanent
\* failure and retries-exhausted, and no exception reaches the dispatcher.
\* ------------------------------------------------------------------------
LastResult(tr) == ResultsOf(tr)[Len(ResultsOf(tr))]

IsSuccess(tr) == ResultsOf(tr) # << >> /\ LastResult(tr) = "ok"
IsPermanent(tr) == ResultsOf(tr) # << >> /\ LastResult(tr) = "Exception"
IsExhausted(tr) == At(tr, "error") # {}

OutcomesOf(tr) ==
    { o \in {"success", "permanent", "exhausted"} :
        \/ o = "success" /\ IsSuccess(tr)
        \/ o = "permanent" /\ IsPermanent(tr)
        \/ o = "exhausted" /\ IsExhausted(tr) }

C10_TraceTerminal(tr) ==
    /\ Cardinality(At(tr, "send")) \in 1..3
    /\ At(tr, "raise") = {}
    /\ Finished(tr) =>
           /\ At(tr, "return") = { Len(tr) }
           /\ OutcomesOf(tr) = { tr[Len(tr)].arg }
           /\ Cardinality(At(tr, "result")) = Cardinality(At(tr, "send"))
    /\ ~Finished(tr) => OutcomesOf(tr) = {}

C10_Terminal ==
    \A t \in Tasks :
        /\ task[t].pc # "raised"
        /\ \A i \in JobIdx(task[t]) :
               /\ C10_TraceTerminal(task[t].jobs[i].trace)
               /\ ~Finished(task[t].jobs[i].trace) =>
                      (i = Len(task[t].jobs) /\ task[t].pc \in {"send", "sleep"})

C10_DeliveryTerminates ==
    /\ [](C10_Terminal)
    /\ \A t \in TaskIds : (task[t].pc \in {"send", "sleep"}) ~> (task[t].pc = "done")

\* one dispatch whose deliveries ended in two different outcomes, one of them
\* after three attempts
C10_Witness ==
    \E t \in Tasks :
        /\ task[t].pc = "done"
        /\ \E i, j \in JobIdx(task[t]) :
               /\ OutcomesOf(task[t].jobs[i].trace) = {"exhausted"}
               /\ OutcomesOf(task[t].jobs[j].trace) = {"permanent"}

\* ------------------------------------------------------------------------
\* C11: delivery failures are isolated per target: after a delivery that ended
\* in permanent failure or in retries-exhausted, every later target of the
\* message, in the same pool and in later pools, still gets its Forward Job
\* and its own full budget of send attempts.
\* ------------------------------------------------------------------------
Failed(tr) == Finished(tr) /\ tr[Len(tr)].arg \in {"permanent", "exhausted"}

\* the targets of the pool list the dispatch looked up
PoolTargets(l) ==
    UNION { Range(l.pools[k].groups) : k \in 1..Len(l.pools) }
        \ { l.event.unified_msg_origin }

\* a delivery counts its attempts from 1, and ends before its third attempt
\* only by a result of its own: a success or a permanent failure
C11_OwnBudget(tr) ==
    /\ tr[1].ev = "send" /\ tr[1].n = 1
    /\ \A k \in At(tr, "send") : tr[k].n = Cardinality({ j \in At(tr, "send") : j <= k })
    /\ (Finished(tr) /\ Cardinality(At(tr, "send")) < MAX_RETRY) =>
           LastResult(tr) \in {"ok", "Exception"}

C11_FailuresIsolated ==
    \A t \in Tasks :
        LET l == task[t]
        IN  /\ \A i \in JobIdx(l) :
                   (i > 1 /\ Failed(l.jobs[i - 1].trace)) => C11_OwnBudget(l.jobs[i].trace)
            /\ (Over(l) /\ \E i \in JobIdx(l) : Failed(l.jobs[i].trace)) =>
                   /\ JobTargets(l) = PoolTargets(l)
                   /\ \A i \in JobIdx(l) : Finished(l.jobs[i].trace)
            /\ (l.jobs # << >> /\ Failed(l.jobs[Len(l.jobs)].trace)) => l.pc = "done"

\* a delivery was exhausted, and the target after it, reached through a later
\* pool, used all three attempts of its own
C11_Witness ==
    \E t \in Tasks :
        LET l == task[t]
        IN  /\ l.pc = "done"
            /\ \E i \in JobIdx(l) :
                   /\ i > 1
                   /\ l.jobs[i - 1].trace[Len(l.jobs[i - 1].trace)].arg = "exhausted"
                   /\ l.jobs[i].pool # l.jobs[i - 1].pool
                   /\ ResultsOf(l.jobs[i].trace) = << "RuntimeError", "RuntimeError", "ok" >>

\* ------------------------------------------------------------------------
\* C12: for any template, a rendering failure for one pool never raises out
\* of on_group_message and never aborts the dispatch: the new targets of that
\* pool get jobs with the fixed safe format, a warning is logged, and all
\* later pools are still processed.
\* ------------------------------------------------------------------------
\* the warnings the dispatcher logged for the pool named n
WarningsFor(l, n) == { k \in 1..Len(l.log) : l.log[k] = Ev("warning", 0, n) }

C12_RenderFailureContained ==
    \A t \in Tasks :
        LET l == task[t]
        IN  /\ l.pc # "raised"
            /\ \A i \in JobIdx(l) :
                   LET pool == l.pools[FirstPoolOf(l, l.jobs[i].target)]
                   IN  RenderRaises(l, pool) # None =>
                           /\ l.jobs[i].text = << "[", pool.name, "] ", SenderName, ": ", MessageText >>
                           /\ WarningsFor(l, pool.name) # {}
            /\ (l.pc = "done" /\ PassedGuards(l)) =>
                   /\ JobTargets(l) = PoolTargets(l)
                   /\ \A k \in 1..Len(l.pools) :
                          RenderRaises(l, l.pools[k]) # None =>
                              WarningsFor(l, l.pools[k].name) # {}

\* the rendering for the first pool failed with an exception line 252 catches:
\* its target got the safe text, and the later pool was served with its own text
C12_Witness ==
    \E t \in Tasks :
        LET l == task[t]
        IN  /\ l.pc = "done"
            /\ Len(l.jobs) = 2
            /\ l.pools[1].format = UnknownFieldFormat
            /\ l.pools[2].format = CustomFormat
            /\ l.jobs[1].text = << "[", "P", "] ", "Bob", ": ", "hello" >>
            /\ l.jobs[2].pool = "Q"
            /\ l.log = << Ev("warning", 0, "P") >>

\* ------------------------------------------------------------------------
\* C13: the text of a pool's jobs follows the tiering per-pool template, then
\* default template, then safe format: a non-empty per-pool template that
\* renders is used; an empty or absent per-pool template uses the configured
\* default template; when the default template is itself empty, absent or
\* fails to render, the safe format is used; the text is never the rendering
\* of an empty template.
\* ------------------------------------------------------------------------
Renders(template, l, pool) ==
    FormatRaises(template, FormatArgs(l.event.sender_id, pool.name)) = None

C13_TemplateTiering ==
    \A t \in Tasks :
        LET l == task[t]
        IN  \A i \in JobIdx(l) :
                LET pool == l.pools[FirstPoolOf(l, l.jobs[i].target)]
                    text == l.jobs[i].text
                    safe == << "[", pool.name, "] ", SenderName, ": ", MessageText >>
                IN  /\ (pool.format # EmptyFormat /\ Renders(pool.format, l, pool)) =>
                           text = FormatMessage(pool.format, l.event.sender_id, pool.name)
                    /\ ( /\ pool.format = EmptyFormat
                         /\ default_format.present
                         /\ default_format.v # EmptyFormat
                         /\ Renders(default_format.v, l, pool) ) =>
                           text = FormatMessage(default_format.v, l.event.sender_id, pool.name)
                    /\ ( /\ pool.format = EmptyFormat
                         /\ \/ ~default_format.present
                            \/ default_format.v = EmptyFormat
                            \/ ~Renders(default_format.v, l, pool) ) =>
                           text = safe
                    /\ text # << >>

\* the tiers the code has: the first pool has no template and got the
\* rendering of the configured default, the second one the rendering of its own
C13_Witness ==
    \E t \in Tasks :
        LET l == task[t]
        IN  /\ l.pc = "done"
            /\ default_format = PresentFormat(OperatorDefaultFormat)
            /\ Len(l.jobs) = 2
            /\ l.pools[1].format = EmptyFormat
            /\ l.pools[2].format = CustomFormat
            /\ l.jobs[1].text = << "Bob", "@", "g1", ": ", "hello" >>
            /\ l.jobs[2].text = << "[", "Q", "] ", "Bob", ": ", "hello" >>

\* ------------------------------------------------------------------------
\* C14: after every _build_index, whatever the index held before, the index
\* is a function of the current configuration alone: the pools of poolsFor(c)
\* are exactly the enabled pools (enabled defaulting to true) that list c, in
\* configuration order; a disabled pool appears for no channel; a second
\* rebuild with the same configuration gives the same index.  (How often a
\* pool appears in poolsFor(c) is the subject of C19: repetitions of a pool
\* that follow each other count once here.)
\* ------------------------------------------------------------------------
\* the enabled flag of a configured pool, true when the pool has none
IsEnabled(pool) == ("enabled" \in DOMAIN pool) => pool.enabled

\* the enabled pools of a configuration that list channel c, in configuration order
ListingPools(pools, c) ==
    SelectSeq(pools, LAMBDA p : IsEnabled(p) /\ c \in Range(p.groups))

\* a sequence without the repetitions that follow each other
RECURSIVE Squeeze(_)
Squeeze(s) ==
    IF Len(s) <= 1 THEN s
    ELSE IF s[1] = s[2] THEN Squeeze(Tail(s))
    ELSE << s[1] >> \o Squeeze(Tail(s))

C14_IndexOfConfig(idx, pools) ==
    /\ DOMAIN idx = { c \in Channels : ListingPools(pools, c) # << >> }
    /\ \A c \in DOMAIN idx :
           /\ Squeeze(idx[c]) = ListingPools(pools, c)
           /\ \A k \in 1..Len(idx[c]) : IsEnabled(idx[c][k])

C14_Rebuild ==
    ReloadConfig =>
        /\ C14_IndexOfConfig(umo_to_pools', config')
        /\ BuildIndex(config') = umo_to_pools'

C14_Built == umo_to_pools = BuildIndex(config) => C14_IndexOfConfig(umo_to_pools, config)

C14_IndexIsFunctionOfConfig == [](C14_Built) /\ [][C14_Rebuild]_vars

\* the index is the one of a configuration with a disabled pool and a pool
\* without enabled flag, while a dispatch still holds the pool list of an
\* earlier index
C14_Witness ==
    \E t \in Tasks :
        /\ config = << PoolPOff, PoolQDup >>
        /\ umo_to_pools = BuildIndex(config)
        /\ umo_to_pools # EmptyIndex
        /\ task[t].pools # << >>
        /\ task[t].pools # umo_to_pools[task[t].event.unified_msg_origin]

\* ------------------------------------------------------------------------
\* C15 (as claimed): rebuilding is the only way the content of the index
\* changes: every other operation (on_group_message in all its branches,
\* list_pools, show_umo, terminate, _send_with_retry) leaves it unchanged.
\* ------------------------------------------------------------------------
C15_OnlyRebuild == umo_to_pools' # umo_to_pools => ReloadConfig

C15_Original == [][C15_OnlyRebuild]_vars

\* C15 (amended): the content of the index changes only by a rebuild or by
\* terminate, which empties it: on_group_message in all its branches,
\* _send_with_retry, list_pools and show_umo leave the index unchanged.
C15_RebuildOrTerminate ==
    /\ umo_to_pools' # umo_to_pools =>
           \/ ReloadConfig
           \/ Terminate /\ umo_to_pools' = EmptyIndex
    /\ task' # task => umo_to_pools' = umo_to_pools

C15_IndexFrame == [][C15_RebuildOrTerminate]_vars

\* a message was dispatched to its targets and the plugin was terminated: the
\* index is empty although the configuration has enabled pools
C15_Witness ==
    \E t \in Tasks :
        /\ task[t].pc = "done"
        /\ task[t].jobs # << >>
        /\ umo_to_pools = EmptyIndex
        /\ BuildIndex(config) # EmptyIndex

\* ------------------------------------------------------------------------
\* C16: under every interleaving of dispatches (suspended only at the await
\* of a send or of a backoff wait) with rebuilds, no dispatch observes a
\* partially rebuilt index: its membership check and its pool list come from
\* the same fully built index, and a rebuild that runs while the dispatch is
\* suspended neither makes it fail nor loses a target of the pool list it
\* looked up.
\* ------------------------------------------------------------------------
\* the index at every point where a coroutine can run: built as a whole from
\* a configuration, or emptied by terminate
C16_IndexWhole ==
    umo_to_pools \in { BuildIndex(c) : c \in ReloadConfigs } \cup { EmptyIndex }

\* a dispatch that was dispatched to the end has served its whole pool list
C16_NoTargetLost ==
    \A t \in Tasks :
        /\ task[t].pc # "raised"
        /\ (task[t].pc = "done" /\ PassedGuards(task[t])) =>
               JobTargets(task[t]) = PoolTargets(task[t])

\* on_group_message starts: the check of line 200 and the lookup of line 234
\* see the same index
C16_OneIndex(t) ==
    (task[t].pc = "idle" /\ task'[t].pc # "idle" /\ task'[t].reply = << >>) =>
        LET src == task'[t].event.unified_msg_origin
        IN  IF src \notin DOMAIN umo_to_pools
            THEN task'[t].pools = << >> /\ task'[t].pc = "done"
            ELSE \/ task'[t].pools = umo_to_pools[src]
                 \/ task'[t].pools = << >> /\ task'[t].pc = "done"
                      /\ task'[t].event.sender_id = task'[t].event.self_id

\* a dispatch under way keeps its pool list, whatever happens to the index
C16_ListKept(t) ==
    task[t].pc \in {"send", "sleep"} =>
        /\ task'[t].pools = task[t].pools
        /\ task'[t].pc \in {"send", "sleep", "done"}
        /\ Len(task'[t].jobs) >= Len(task[t].jobs)

C16_Step == \A t \in Tasks : C16_OneIndex(t) /\ C16_ListKept(t)

C16_NoPartialIndex == [](C16_IndexWhole /\ C16_NoTargetLost) /\ [][C16_Step]_vars

\* a dispatch is suspended in a backoff wait with a target still to serve,
\* and the index was rebuilt meanwhile from a configuration without pools
C16_Witness ==
    \E t \in Tasks :
        /\ task[t].pc = "sleep"
        /\ Len(task[t].jobs) < Cardinality(PoolTargets(task[t]))
        /\ config = << >>
        /\ umo_to_pools = EmptyIndex

\* ------------------------------------------------------------------------
\* C17: for every message that passes both guards, event.stop_event is
\* eventually signalled exactly once, and only after every Forward Job of the
\* message has reached a terminal outcome; also when the message has no
\* target at all and when every delivery fails.
\* ------------------------------------------------------------------------
C17_StopSafe ==
    \A t \in Tasks :
        LET l == task[t]
        IN  /\ l.stops <= 1
            /\ l.stops = 1 => \A i \in JobIdx(l) : OutcomesOf(l.jobs[i].trace) # {}
            /\ (Over(l) /\ PassedGuards(l)) => l.stops = 1

C17_StopSignalledOnce ==
    /\ [](C17_StopSafe)
    /\ \A t \in TaskIds : PassedGuards(task[t]) ~> (task[t].stops = 1)

\* stop_event was signalled after both deliveries of the message had failed
C17_Witness ==
    \E t \in Tasks :
        LET l == task[t]
        IN  /\ l.stops = 1
            /\ Len(l.jobs) = 2
            /\ OutcomesOf(l.jobs[1].trace) = {"exhausted"}
            /\ OutcomesOf(l.jobs[2].trace) = {"permanent"}

\* ------------------------------------------------------------------------
\* C18: within one message's fan-out the deliveries are strictly sequential
\* and ordered: the first send to a target happens only after the delivery to
\* the previous target is terminal (at most one delivery of the message is in
\* flight), and the targets are served in index pool order and, within a
\* pool, in listed member order.
\* ------------------------------------------------------------------------
\* the members of a pool list, pool after pool
RECURSIVE Members(_)
Members(pools) ==
    IF pools = << >> THEN << >> ELSE Head(pools).groups \o Members(Tail(pools))

\* the first occurrences of the channels of s other than src, in the order of s
ServingOrder(s, src) ==
    LET keep == { k \in 1..Len(s) : s[k] # src /\ \A j \in 1..(k - 1) : s[j] # s[k] }
    IN  [ n \in 1..Cardinality(keep) |->
            s[CHOOSE k \in keep : Cardinality({ j \in keep : j < k }) = n - 1] ]

\* the targets of the jobs, in the order in which the jobs were started
TargetSeq(l) == [ i \in JobIdx(l) |-> l.jobs[i].target ]

IsPrefix(s, r) == Len(s) <= Len(r) /\ \A k \in 1..Len(s) : s[k] = r[k]

C18_OneInFlight ==
    \A t \in Tasks :
        \A i \in JobIdx(task[t]) : i < Len(task[t].jobs) => Finished(task[t].jobs[i].trace)

C18_InOrder ==
    \A t \in Tasks :
        LET l == task[t]
            order == ServingOrder(Members(l.pools), l.event.unified_msg_origin)
        IN  /\ IsPrefix(TargetSeq(l), order)
            /\ l.pc = "done" => TargetSeq(l) = order

\* a step starts at most one job, after the return of the job before it, and
\* changes no job but the last one
C18_Step ==
    \A t \in Tasks :
        LET old == task[t].jobs
            new == task'[t].jobs
        IN  /\ Len(new) \in { Len(old), Len(old) + 1 }
            /\ \A i \in 1..Len(old) :
                   /\ new[i].target = old[i].target
                   /\ IsPrefix(old[i].trace, new[i].trace)
                   /\ i < Len(old) => new[i] = old[i]
            /\ Len(new) = Len(old) + 1 =>
                   /\ new[Len(new)].trace = << Ev("send", 1, new[Len(new)].target) >>
                   /\ Len(old) > 0 => Finished(new[Len(old)].trace)

C18_SequentialInOrder == [](C18_OneInFlight /\ C18_InOrder) /\ [][C18_Step]_vars

\* two targets were served one after the other, the first one through the
\* first pool of the index and the second one through the second pool, both
\* after retries
C18_Witness ==
    \E t \in Tasks :
        LET l == task[t]
        IN  /\ l.pc = "done"
            /\ TargetSeq(l) = << "Z", "Y" >>
            /\ l.jobs[1].pool = "P" /\ l.jobs[2].pool = "Q"
            /\ Cardinality(At(l.jobs[1].trace, "send")) = 3
            /\ Cardinality(At(l.jobs[2].trace, "send")) = 2

\* ------------------------------------------------------------------------
\* C19: duplicate entries in a pool's member list are ineffective: the index
\* (poolsFor of every channel, including how many times a pool appears in it)
\* and the Forward Jobs and warnings of every message are the same as for the
\* configuration in which each member is listed once.
\* ------------------------------------------------------------------------
\* the configuration with each member of each pool listed once
ListedOnce(pools) ==
    [ i \in 1..Len(pools) |-> [ pools[i] EXCEPT !.groups = ServingOrder(@, None) ] ]

\* poolsFor(c) of an index, as the names of its pools
PoolsFor(idx, c) ==
    IF c \in DOMAIN idx THEN [ k \in 1..Len(idx[c]) |-> idx[c][k].name ] ELSE << >>

\* the dispatch of a message run to its end, every send returning at once
RECURSIVE RunToEnd(_)
RunToEnd(l) == IF l.pc = "send" THEN RunToEnd(AfterSend(l, "ok")) ELSE l

\* what the message of a dispatch gives with each member listed once
OnceRun(l) ==
    RunToEnd(Dispatch(BuildIndex(ListedOnce(config)),
                      ConfigDefaultFormat(default_format), l.event))

JobsOf(l) ==
    [ i \in JobIdx(l) |->
        [ target |-> l.jobs[i].target, text |-> l.jobs[i].text, pool |-> l.jobs[i].pool ] ]

WarningsOf(l) == SelectSeq(l.log, LAMBDA e : e.ev = "warning")

C19_SameIndex ==
    \A c \in Channels :
        PoolsFor(BuildIndex(config), c) = PoolsFor(BuildIndex(ListedOnce(config)), c)

C19_SameJobs ==
    \A t \in Tasks : Over(task[t]) => JobsOf(task[t]) = JobsOf(OnceRun(task[t]))

C19_SameWarnings ==
    \A t \in Tasks : Over(task[t]) => WarningsOf(task[t]) = WarningsOf(OnceRun(task[t]))

C19_DuplicatesIneffective == C19_SameIndex /\ C19_SameJobs /\ C19_SameWarnings

\* a message was dispatched under a configuration that lists a target twice:
\* its jobs are those of the configuration without the repetition
C19_Witness ==
    \E t \in Tasks :
        /\ config = OverlapConfig
        /\ task[t].pc = "done"
        /\ Len(task[t].jobs) = 2
        /\ JobsOf(task[t]) = JobsOf(OnceRun(task[t]))

\* ------------------------------------------------------------------------
\* C20: the already-sent set is scoped to one message and shared with no
\* other dispatch: for any two messages, from the same or from different
\* sources, processed in any interleaving, each message produces the same set
\* of Forward Jobs as when it is processed alone; a target that already
\* received message 1 still receives message 2.
\* ------------------------------------------------------------------------
\* the jobs of the message of a dispatch when no other message is in flight
AloneRun(l) ==
    RunToEnd(Dispatch(BuildIndex(config), ConfigDefaultFormat(default_format), l.event))

C20_JobsAsAlone ==
    \A t \in Tasks :
        LET l == task[t]
        IN  /\ l.sent_targets = JobTargets(l)
            /\ Over(l) =>
                   /\ JobsOf(l) = JobsOf(AloneRun(l))
                   /\ PassedGuards(l) =>
                          TargetSeq(l) = ServingOrder(Members(l.pools),
                                                      l.event.unified_msg_origin)

\* two messages from two sources were dispatched, the second one started
\* while the first one was under way: both have a job to Z, and each one a
\* job to the other's source
C20_Witness ==
    /\ task["m1"].pc = "done" /\ task["m2"].pc = "done"
    /\ task["m1"].event.unified_msg_origin = "X"
    /\ task["m2"].event.unified_msg_origin = "Y"
    /\ TargetSeq(task["m1"]) = << "Y", "Z" >>
    /\ TargetSeq(task["m2"]) = << "X", "Z" >>

====
